---- MODULE Spec2Model ----
(***************************************************************************)
(* Model of internal/server/server.go of iam-runtime-static: the static    *)
(* IAM runtime server.  newFromPolicy builds the token table from a policy *)
(* document and the process environment; AuthenticateSubject and           *)
(* CheckAccess answer requests from that table; checkAccess decides one    *)
(* (action, resource) pair for one subject.                                *)
(***************************************************************************)
EXTENDS Integers, Sequences, FiniteSets

VARIABLES
    policy,   \* the parsed policy document: c.Subjects
    env,      \* the process environment read by os.Getenv
    pc,       \* position of NewServer: "start", "build", "serving", "failed"
    i,        \* newFromPolicy: index of sub in c.Subjects
    j,        \* newFromPolicy: index of tok in sub.Tokens
    tokens,   \* newFromPolicy: the local map tokens
    srv,      \* the *server NewServer returned: nil, or its tokens field
    err,      \* the error NewServer returned
    h,        \* the request handlers (goroutines) in flight
    call      \* a direct call of checkAccess: its arguments and its result

vars == <<policy, env, pc, i, j, tokens, srv, err, h, call>>

(***************************************************************************)
(* Bounds of the inputs.                                                   *)
(***************************************************************************)
MaxSubjects == 2
MaxTokens == 2
MaxResources == 2
MaxActions == 2
MaxPairs == 2

EnvVars == {"TOKEN_A", "TOKEN_B"}
Values == {"", "abc123", "shared-secret"}
ActionNames == {"read", "write"}
ResourceIDs == {"db1", "db2"}
UndeclaredResourceID == "db3"
SubjectIDs == <<"svc-a", "svc-b", "svc-c">>
Credentials == Values

Range(s) == {s[n] : n \in 1..Len(s)}
SeqsUpTo(S, n) == UNION {[1..m -> S] : m \in 0..n}
Min(S) == CHOOSE x \in S : \A y \in S : x <= y
Max(S) == CHOOSE x \in S : \A y \in S : y <= x

(***************************************************************************)
(* checkAccess (server.go 15-39).                                          *)
(***************************************************************************)
ZeroResource == [ID |-> "", Actions |-> <<>>]

\* The first loop: every candidate is visited, a match overwrites resource.
RECURSIVE ScanResources(_, _, _, _)
ScanResources(resources, resourceID, n, acc) ==
    IF n > Len(resources) THEN acc
    ELSE ScanResources(resources, resourceID, n + 1,
            IF resources[n].ID = resourceID
            THEN [resource |-> resources[n], found |-> TRUE]
            ELSE acc)

\* Changed: only the first action of the list is compared.
ScanActions_FirstOnly(actions, action, n) ==
    n <= Len(actions) /\ n = 1 /\ actions[n] = action

\* The second loop: returns true at the first action equal to the request's.
RECURSIVE ScanActions(_, _, _)
ScanActions(actions, action, n) ==
    IF n > Len(actions) THEN FALSE
    ELSE IF actions[n] = action THEN TRUE
    ELSE ScanActions(actions, action, n + 1)

\* Changed: the first loop stops at the first match.
RECURSIVE ScanResources_Break(_, _, _)
ScanResources_Break(resources, resourceID, n) ==
    IF n > Len(resources) THEN [resource |-> ZeroResource, found |-> FALSE]
    ELSE IF resources[n].ID = resourceID
    THEN [resource |-> resources[n], found |-> TRUE]
    ELSE ScanResources_Break(resources, resourceID, n + 1)

checkAccess_FirstMatch(sub, action, resourceID) ==
    LET r == ScanResources_Break(sub.Resources, resourceID, 1)
    IN  IF ~r.found THEN FALSE ELSE ScanActions(r.resource.Actions, action, 1)

\* Changed: the candidate is kept whatever its ID, found is not consulted.
checkAccess_Unfiltered(sub, action, resourceID) ==
    LET rs == sub.Resources
        resource == IF Len(rs) = 0 THEN ZeroResource ELSE rs[Len(rs)]
    IN  ScanActions(resource.Actions, action, 1)

checkAccess(sub, action, resourceID) ==
    LET r == ScanResources(sub.Resources, resourceID, 1,
                           [resource |-> ZeroResource, found |-> FALSE])
    IN  IF ~r.found THEN FALSE ELSE ScanActions(r.resource.Actions, action, 1)

(***************************************************************************)
(* The policy document and the server (server.go 47-55).                   *)
(***************************************************************************)
NoSubject == [ID |-> "", Tokens |-> <<>>, Resources |-> <<>>]
EmptyMap == [v \in {} |-> NoSubject]
NilServer == [isNil |-> TRUE, tokens |-> EmptyMap]
NoErr == [kind |-> "", sub |-> "", envVar |-> ""]

\* The grants of the subjects of a document, by position.
Grants ==
    << <<[ID |-> "db1", Actions |-> <<"read">>]>>,
       <<[ID |-> "db1", Actions |-> <<"read", "write">>],
         [ID |-> "db2", Actions |-> <<"read">>]>>,
       <<[ID |-> "db1", Actions |-> <<"write">>],
         [ID |-> "db1", Actions |-> <<"read">>]>> >>

TokenLists == SeqsUpTo({[EnvVar |-> e] : e \in EnvVars}, MaxTokens)

Subject(n, toks) == [ID |-> SubjectIDs[n], Tokens |-> toks, Resources |-> Grants[n]]

Policies ==
    UNION {{[n \in 1..m |-> Subject(n, f[n])] : f \in [1..m -> TokenLists]} :
           m \in 0..MaxSubjects}

\* tokens[tokValue] = sub
MapPut(m, key, val) ==
    [v \in DOMAIN m \cup {key} |-> IF v = key THEN val ELSE m[v]]

(***************************************************************************)
(* NewServer (server.go 58-72) and newFromPolicy (server.go 74-100).       *)
(***************************************************************************)
\* os.Open fails.
NewServerOpenErr ==
    /\ pc = "start"
    /\ pc' = "failed"
    /\ err' = [kind |-> "ErrOpen", sub |-> "", envVar |-> ""]
    /\ UNCHANGED <<policy, env, i, j, tokens, srv, h, call>>

\* readPolicy fails.
NewServerReadErr ==
    /\ pc = "start"
    /\ pc' = "failed"
    /\ err' = [kind |-> "ErrReadPolicy", sub |-> "", envVar |-> ""]
    /\ UNCHANGED <<policy, env, i, j, tokens, srv, h, call>>

\* The file is read; newFromPolicy is entered and makes the empty map.
NewServer ==
    /\ pc = "start"
    /\ pc' = "build"
    /\ tokens' = EmptyMap
    /\ i' = 1
    /\ j' = 1
    /\ UNCHANGED <<policy, env, srv, err, h, call>>

InInnerLoop == pc = "build" /\ i <= Len(policy) /\ j <= Len(policy[i].Tokens)
tokValue == env[policy[i].Tokens[j].EnvVar]
BuildErr(kind) == [kind |-> kind, sub |-> policy[i].ID, envVar |-> policy[i].Tokens[j].EnvVar]

\* The inner loop is over: the next subject.
BuildNextSubject ==
    /\ pc = "build"
    /\ i <= Len(policy)
    /\ j > Len(policy[i].Tokens)
    /\ i' = i + 1
    /\ j' = 1
    /\ UNCHANGED <<policy, env, pc, tokens, srv, err, h, call>>

\* Changed: an empty value is inserted like any other.
BuildMissingValue_Accept ==
    /\ InInnerLoop
    /\ tokValue = ""
    /\ tokens' = MapPut(tokens, tokValue, policy[i])
    /\ j' = j + 1
    /\ UNCHANGED <<policy, env, pc, i, srv, err, h, call>>

\* Changed: the entries inserted so far are returned with the error.
BuildMissingValue_Partial ==
    /\ InInnerLoop
    /\ tokValue = ""
    /\ pc' = "failed"
    /\ err' = BuildErr("ErrMissingValue")
    /\ srv' = [isNil |-> FALSE, tokens |-> tokens]
    /\ UNCHANGED <<policy, env, i, j, tokens, h, call>>

\* tokValue == "": return nil, ErrMissingValue.
BuildMissingValue ==
    /\ InInnerLoop
    /\ tokValue = ""
    /\ pc' = "failed"
    /\ err' = BuildErr("ErrMissingValue")
    /\ UNCHANGED <<policy, env, i, j, tokens, srv, h, call>>

\* Changed: a value already in the map overwrites its entry.
BuildDuplicateValue_Overwrite ==
    /\ InInnerLoop
    /\ tokValue # ""
    /\ tokValue \in DOMAIN tokens
    /\ tokens' = MapPut(tokens, tokValue, policy[i])
    /\ j' = j + 1
    /\ UNCHANGED <<policy, env, pc, i, srv, err, h, call>>

\* tokens[tokValue] exists: return nil, ErrDuplicateValue.
BuildDuplicateValue ==
    /\ InInnerLoop
    /\ tokValue # ""
    /\ tokValue \in DOMAIN tokens
    /\ pc' = "failed"
    /\ err' = BuildErr("ErrDuplicateValue")
    /\ UNCHANGED <<policy, env, i, j, tokens, srv, h, call>>

\* Changed: every value is mapped to the first subject of the document.
BuildInsert_FirstSubject ==
    /\ InInnerLoop
    /\ tokValue # ""
    /\ tokValue \notin DOMAIN tokens
    /\ tokens' = MapPut(tokens, tokValue, policy[1])
    /\ j' = j + 1
    /\ UNCHANGED <<policy, env, pc, i, srv, err, h, call>>

\* tokens[tokValue] = sub
BuildInsert ==
    /\ InInnerLoop
    /\ tokValue # ""
    /\ tokValue \notin DOMAIN tokens
    /\ tokens' = MapPut(tokens, tokValue, policy[i])
    /\ j' = j + 1
    /\ UNCHANGED <<policy, env, pc, i, srv, err, h, call>>

\* The outer loop is over: return &server{tokens: tokens}, nil.
BuildReturn ==
    /\ pc = "build"
    /\ i > Len(policy)
    /\ srv' = [isNil |-> FALSE, tokens |-> tokens]
    /\ pc' = "serving"
    /\ UNCHANGED <<policy, env, i, j, tokens, err, h, call>>

(***************************************************************************)
(* The request handlers (server.go 102-134).  A handler is a method of the *)
(* *server NewServer returned; each request runs in its own goroutine.     *)
(***************************************************************************)
NoResp == [code |-> "", sub |-> "", action |-> "", resourceId |-> ""]
IdleHandler ==
    [pc |-> "idle", rpc |-> "", cred |-> "", pairs |-> <<>>, k |-> 0,
     sub |-> NoSubject, resp |-> NoResp]

ReqPairs ==
    {[Action |-> "read", ResourceId |-> "db1"],
     [Action |-> "write", ResourceId |-> "db1"],
     [Action |-> "read", ResourceId |-> "db2"]}
PairLists == SeqsUpTo(ReqPairs, MaxPairs)

Free(p) == ~srv.isNil /\ h[p].pc \in {"idle", "done"}

Done(p, rpc, cred, pairs, resp) ==
    h' = [h EXCEPT ![p] = [pc |-> "done", rpc |-> rpc, cred |-> cred, pairs |-> pairs,
                           k |-> 0, sub |-> NoSubject, resp |-> resp]]

Unauthenticated == [code |-> "Unauthenticated", sub |-> "", action |-> "", resourceId |-> ""]
OK == [code |-> "OK", sub |-> "", action |-> "", resourceId |-> ""]
PermissionDenied(pair) ==
    [code |-> "PermissionDenied", sub |-> "", action |-> pair.Action,
     resourceId |-> pair.ResourceId]

\* Changed: a credential is good for one authentication.
AuthenticateSubject_Consume(p) ==
    /\ Free(p)
    /\ \E cred \in Credentials :
          IF cred \notin DOMAIN srv.tokens
          THEN Done(p, "AuthenticateSubject", cred, <<>>, Unauthenticated) /\ srv' = srv
          ELSE /\ Done(p, "AuthenticateSubject", cred, <<>>,
                       [OK EXCEPT !.sub = srv.tokens[cred].ID])
               /\ srv' = [srv EXCEPT !.tokens =
                             [v \in DOMAIN srv.tokens \ {cred} |-> srv.tokens[v]]]
    /\ UNCHANGED <<policy, env, pc, i, j, tokens, err, call>>

\* AuthenticateSubject: the lookup and the response.
AuthenticateSubject(p) ==
    /\ Free(p)
    /\ \E cred \in Credentials :
          IF cred \notin DOMAIN srv.tokens
          THEN Done(p, "AuthenticateSubject", cred, <<>>, Unauthenticated)
          ELSE Done(p, "AuthenticateSubject", cred, <<>>,
                    [OK EXCEPT !.sub = srv.tokens[cred].ID])
    /\ UNCHANGED <<policy, env, pc, i, j, tokens, srv, err, call>>

\* Changed: ok is ignored, a miss goes on with the zero subject.
CheckAccessLookup_NoAuth(p) ==
    /\ Free(p)
    /\ \E cred \in Credentials, pairs \in PairLists :
          h' = [h EXCEPT ![p] = [pc |-> "loop", rpc |-> "CheckAccess", cred |-> cred,
                                 pairs |-> pairs, k |-> 1,
                                 sub |-> IF cred \in DOMAIN srv.tokens
                                         THEN srv.tokens[cred] ELSE NoSubject,
                                 resp |-> NoResp]]
    /\ UNCHANGED <<policy, env, pc, i, j, tokens, srv, err, call>>

\* CheckAccess: the lookup; a miss is answered, a hit enters the loop.
CheckAccessLookup(p) ==
    /\ Free(p)
    /\ \E cred \in Credentials, pairs \in PairLists :
          IF cred \notin DOMAIN srv.tokens
          THEN Done(p, "CheckAccess", cred, pairs, Unauthenticated)
          ELSE h' = [h EXCEPT ![p] = [pc |-> "loop", rpc |-> "CheckAccess", cred |-> cred,
                                      pairs |-> pairs, k |-> 1, sub |-> srv.tokens[cred],
                                      resp |-> NoResp]]
    /\ UNCHANGED <<policy, env, pc, i, j, tokens, srv, err, call>>

InLoop(p) == h[p].pc = "loop" /\ h[p].k <= Len(h[p].pairs)
PairAllowed(p) ==
    checkAccess(h[p].sub, h[p].pairs[h[p].k].Action, h[p].pairs[h[p].k].ResourceId)

\* CheckAccess: the pair is denied, the request ends.
CheckAccessDenied(p) ==
    /\ InLoop(p)
    /\ ~PairAllowed(p)
    /\ Done(p, "CheckAccess", h[p].cred, h[p].pairs, PermissionDenied(h[p].pairs[h[p].k]))
    /\ UNCHANGED <<policy, env, pc, i, j, tokens, srv, err, call>>

\* Changed: the loop ends after the first allowed pair.
CheckAccessAllowed_Once(p) ==
    /\ InLoop(p)
    /\ PairAllowed(p)
    /\ h' = [h EXCEPT ![p].k = Len(h[p].pairs) + 1]
    /\ UNCHANGED <<policy, env, pc, i, j, tokens, srv, err, call>>

\* CheckAccess: the pair is allowed, the next pair.
CheckAccessAllowed(p) ==
    /\ InLoop(p)
    /\ PairAllowed(p)
    /\ h' = [h EXCEPT ![p].k = h[p].k + 1]
    /\ UNCHANGED <<policy, env, pc, i, j, tokens, srv, err, call>>

\* CheckAccess: the loop is over, the empty response.
CheckAccessReturn(p) ==
    /\ h[p].pc = "loop"
    /\ h[p].k > Len(h[p].pairs)
    /\ Done(p, "CheckAccess", h[p].cred, h[p].pairs, OK)
    /\ UNCHANGED <<policy, env, pc, i, j, tokens, srv, err, call>>

(***************************************************************************)
(* A direct call of checkAccess.                                           *)
(***************************************************************************)
NoCall == [sub |-> NoSubject, action |-> "", resourceID |-> "", ret |-> FALSE, done |-> FALSE]

ResourceLists ==
    SeqsUpTo({[ID |-> r, Actions |-> a] :
                 r \in ResourceIDs, a \in SeqsUpTo(ActionNames, MaxActions)},
             MaxResources)

CallCheckAccess ==
    \E action \in ActionNames, resourceID \in ResourceIDs \cup {UndeclaredResourceID} :
        /\ call' = [call EXCEPT !.action = action, !.resourceID = resourceID,
                                !.ret = checkAccess(call.sub, action, resourceID),
                                !.done = TRUE]
        /\ UNCHANGED <<policy, env, pc, i, j, tokens, srv, err, h>>

(***************************************************************************)
(* The specifications.                                                     *)
(***************************************************************************)
NotStarted ==
    /\ pc = "start"
    /\ i = 0
    /\ j = 0
    /\ tokens = EmptyMap
    /\ srv = NilServer
    /\ err = NoErr

\* Any document, any environment, one request at a time.
Init ==
    /\ policy \in Policies
    /\ env \in [EnvVars -> Values]
    /\ NotStarted
    /\ h = [p \in {"g1"} |-> IdleHandler]
    /\ call = NoCall

ConcPolicies ==
    {<<Subject(1, <<[EnvVar |-> "TOKEN_A"]>>), Subject(2, <<[EnvVar |-> "TOKEN_B"]>>)>>,
     <<Subject(1, <<[EnvVar |-> "TOKEN_A"], [EnvVar |-> "TOKEN_A"]>>)>>}
ConcEnvs ==
    {e \in [EnvVars -> Values] : e["TOKEN_A"] \in {"abc123"}}

\* A few documents, two requests in flight at once.
InitConc ==
    /\ policy \in ConcPolicies
    /\ env \in ConcEnvs
    /\ NotStarted
    /\ h = [p \in {"g1", "g2"} |-> IdleHandler]
    /\ call = NoCall

\* checkAccess alone, on any subject.
InitAccess ==
    /\ policy = <<>>
    /\ env = [e \in EnvVars |-> ""]
    /\ NotStarted
    /\ h = [p \in {"g1"} |-> IdleHandler]
    /\ call \in {[NoCall EXCEPT !.sub = [ID |-> "svc-a", Tokens |-> <<>>, Resources |-> rs]] :
                    rs \in ResourceLists}

Next ==
    \/ NewServerOpenErr
    \/ NewServerReadErr
    \/ NewServer
    \/ BuildNextSubject
    \/ BuildMissingValue
    \/ BuildDuplicateValue
    \/ BuildInsert
    \/ BuildReturn
    \/ \E p \in DOMAIN h : AuthenticateSubject(p)
    \/ \E p \in DOMAIN h : CheckAccessLookup(p)
    \/ \E p \in DOMAIN h : CheckAccessDenied(p)
    \/ \E p \in DOMAIN h : CheckAccessAllowed(p)
    \/ \E p \in DOMAIN h : CheckAccessReturn(p)

NextAccess == CallCheckAccess

Spec == Init /\ [][Next]_vars
SpecConc == InitConc /\ [][Next]_vars
SpecAccess == InitAccess /\ [][NextAccess]_vars

(***************************************************************************)
(* Vocabulary of the properties.                                           *)
(***************************************************************************)
\* The declared credential sources, as (subject index, token index).
SourceIdx ==
    UNION {{<<n, t>> : t \in 1..Len(policy[n].Tokens)} : n \in 1..Len(policy)}
Before(a, b) == a[1] < b[1] \/ (a[1] = b[1] /\ a[2] < b[2])
Resolved(a) == env[policy[a[1]].Tokens[a[2]].EnvVar]
EmptyAt == {a \in SourceIdx : Resolved(a) = ""}
RepeatAt == {a \in SourceIdx : \E b \in SourceIdx : Before(b, a) /\ Resolved(b) = Resolved(a)}
FirstOf(S) == CHOOSE a \in S : \A b \in S : a = b \/ Before(a, b)
ErrAt(kind, a) ==
    [kind |-> kind, sub |-> policy[a[1]].ID, envVar |-> policy[a[1]].Tokens[a[2]].EnvVar]
BuildOver == pc \in {"serving", "failed"} /\ err.kind \notin {"ErrOpen", "ErrReadPolicy"}
Answered(p) == h[p].pc = "done"
Matching == {n \in 1..Len(call.sub.Resources) : call.sub.Resources[n].ID = call.resourceID}
Denied(sub, pairs) ==
    {n \in 1..Len(pairs) : ~checkAccess(sub, pairs[n].Action, pairs[n].ResourceId)}

C9_UndeclaredResourceDenied ==
    (call.done /\ Matching = {}) => ~call.ret

C9_Witness ==
    /\ call.done
    /\ Matching = {}
    /\ ~call.ret
    /\ \E n \in 1..Len(call.sub.Resources) :
          call.action \in Range(call.sub.Resources[n].Actions)

C5_Original ==
    (BuildOver /\ EmptyAt # {}) => (pc = "failed" /\ err.kind = "ErrMissingValue")

\* C5 amended: when some declared source resolves to the empty string the
\* build fails; it fails with ErrMissingValue at the first such source unless
\* a source before it repeats an earlier value, and then it fails with
\* ErrDuplicateValue at the first repeating source.
C5_EmptyValueFailsBuild ==
    (BuildOver /\ EmptyAt # {}) =>
        /\ pc = "failed"
        /\ srv.isNil
        /\ IF \E a \in RepeatAt : Before(a, FirstOf(EmptyAt))
           THEN err = ErrAt("ErrDuplicateValue", FirstOf(RepeatAt))
           ELSE err = ErrAt("ErrMissingValue", FirstOf(EmptyAt))

C5_Witness ==
    /\ pc = "failed"
    /\ err.kind = "ErrMissingValue"
    /\ FirstOf(EmptyAt)[1] = 2
    /\ \E a \in RepeatAt : Resolved(a) # ""

\* C6 as stated: when two declared sources resolve to the same value the
\* build fails with ErrDuplicateValue, and a built table comes from pairwise
\* distinct values.
C6_Original ==
    /\ (BuildOver /\ RepeatAt # {}) => (pc = "failed" /\ err.kind = "ErrDuplicateValue")
    /\ pc = "serving" => RepeatAt = {}

\* C6 amended: when two declared sources resolve to the same value the build
\* fails; it fails with ErrDuplicateValue at the first repeating source unless
\* a source before it resolves to the empty string, and then it fails with
\* ErrMissingValue at the first empty source.  A built table comes from
\* pairwise distinct values.
C6_SharedValueFailsBuild ==
    /\ (BuildOver /\ RepeatAt # {}) =>
          /\ pc = "failed"
          /\ srv.isNil
          /\ IF \E a \in EmptyAt : Before(a, FirstOf(RepeatAt))
             THEN err = ErrAt("ErrMissingValue", FirstOf(EmptyAt))
             ELSE err = ErrAt("ErrDuplicateValue", FirstOf(RepeatAt))
    /\ pc = "serving" => RepeatAt = {}

C6_Witness ==
    /\ pc = "failed"
    /\ err.kind = "ErrDuplicateValue"
    /\ FirstOf(RepeatAt)[1] = 2
    /\ \E b \in SourceIdx : b[1] = 1 /\ Resolved(b) = Resolved(FirstOf(RepeatAt))
    /\ EmptyAt # {}

\* C7: a build that hits a missing or duplicate value returns no server and
\* no table; a request is answered only after a build that went through the
\* whole document, and never after a failed one.
C7_BuildAllOrNothing ==
    /\ pc # "serving" => (srv = NilServer /\ \A p \in DOMAIN h : h[p] = IdleHandler)
    /\ \A p \in DOMAIN h :
          h[p].pc # "idle" =>
              /\ pc = "serving"
              /\ err = NoErr
              /\ DOMAIN srv.tokens = {Resolved(a) : a \in SourceIdx}
              /\ \A a \in SourceIdx : srv.tokens[Resolved(a)] = policy[a[1]]

C7_Witness ==
    /\ pc = "failed"
    /\ err.kind \in {"ErrMissingValue", "ErrDuplicateValue"}
    /\ DOMAIN tokens # {}
    /\ srv = NilServer

(***************************************************************************)
(* AuthenticateSubject and CheckAccess.                                    *)
(***************************************************************************)
\* C2: after a build, AuthenticateSubject called with the value a declared
\* source of subject s resolved to succeeds, and the claim "sub" is s's
\* identifier.
C2_AuthenticatesDeclaredSubject ==
    \A p \in DOMAIN h :
        (Answered(p) /\ h[p].rpc = "AuthenticateSubject") =>
            \A a \in SourceIdx :
                Resolved(a) = h[p].cred =>
                    h[p].resp = [OK EXCEPT !.sub = policy[a[1]].ID]

C2_Witness ==
    \E p \in DOMAIN h :
        /\ Answered(p)
        /\ h[p].rpc = "AuthenticateSubject"
        /\ Len(policy) = 2
        /\ Len(policy[1].Tokens) > 0
        /\ \E a \in SourceIdx : a[1] = 2 /\ Resolved(a) = h[p].cred
        /\ h[p].resp.sub = policy[2].ID

\* C3: a credential that is no key of the table is answered Unauthenticated
\* by both handlers, and CheckAccess evaluates no pair for it.
C3_UnknownCredentialUnauthenticated ==
    \A p \in DOMAIN h :
        /\ (Answered(p) /\ h[p].cred \notin DOMAIN srv.tokens) => h[p].resp = Unauthenticated
        /\ h[p].pc = "loop" => h[p].cred \in DOMAIN srv.tokens

C3_Witness ==
    \E p \in DOMAIN h :
        /\ Answered(p)
        /\ h[p].rpc = "CheckAccess"
        /\ h[p].cred \notin DOMAIN srv.tokens
        /\ h[p].cred # ""
        /\ DOMAIN srv.tokens # {}
        /\ Len(h[p].pairs) = 2
        /\ h[p].resp = Unauthenticated

\* C4: a CheckAccess request with a known credential succeeds iff checkAccess
\* is true for every pair; otherwise it is answered PermissionDenied with the
\* pair of the smallest index for which checkAccess is false.
C4_FirstDeniedPairReported ==
    \A p \in DOMAIN h :
        (Answered(p) /\ h[p].rpc = "CheckAccess" /\ h[p].cred \in DOMAIN srv.tokens) =>
            LET F == Denied(srv.tokens[h[p].cred], h[p].pairs)
            IN  IF F = {} THEN h[p].resp = OK
                ELSE h[p].resp = PermissionDenied(h[p].pairs[Min(F)])

C4_Witness ==
    \E p \in DOMAIN h :
        /\ Answered(p)
        /\ h[p].rpc = "CheckAccess"
        /\ h[p].cred \in DOMAIN srv.tokens
        /\ Len(h[p].pairs) = 2
        /\ Denied(srv.tokens[h[p].cred], h[p].pairs) = {2}
        /\ h[p].resp.code = "PermissionDenied"

\* C8: after a build no request, answered or denied, alone or beside another
\* one, changes the table; the same request gets the same answer.
SameRequestSameAnswer ==
    \A p, q \in DOMAIN h :
        (/\ Answered(p) /\ Answered(q)
         /\ h[p].rpc = h[q].rpc /\ h[p].cred = h[q].cred /\ h[p].pairs = h[q].pairs)
        => h[p].resp = h[q].resp

C8_TableFrozen ==
    /\ []SameRequestSameAnswer
    /\ [][pc = "serving" => srv' = srv]_vars

C8_Witness ==
    /\ Answered("g1") /\ Answered("g2")
    /\ h["g1"].rpc = "CheckAccess"
    /\ h["g1"].resp.code = "PermissionDenied"
    /\ h["g2"] = h["g1"]

====
